---- MODULE Spec2Model ----
(***************************************************************************)
(* State-machine model of rpi-energy-meter (src/main.py).                  *)
(*                                                                         *)
(* One run of the script is one polling cycle: the __main__ block creates  *)
(* the CSV backlog when it is absent and calls get_and_send_readings once. *)
(* The scheduler that starts the script again is modelled by Restart.      *)
(*                                                                         *)
(* What the source fixes is modelled as the source fixes it: the order of  *)
(* the statements, the except clauses, the field names looked up in a      *)
(* stored row, the two steps of clear_csv.  What the source leaves to its  *)
(* collaborators (the Modbus instrument, the file system, the socket       *)
(* probe, the HTTP client and the collector behind it) is a choice over    *)
(* the outcomes the statement can have, the exceptions included.  Two      *)
(* statements depend on names the libraries would have to provide:         *)
(* instrument.seial (line 258) and requests.POST (line 358).  minimalmodbus *)
(* and requests as published provide neither, and there the AttributeError *)
(* outcome is the one that occurs; both outcomes are kept, so that the     *)
(* statements after them are covered.                                      *)
(*                                                                         *)
(* Specifications: Spec is the script run after run; SpecCrash adds a kill *)
(* at any step; SpecConc is two runs sharing the CSV file; SpecStore,      *)
(* SpecImbalance and SpecDecode apply the file operations, the phase       *)
(* imbalance of lines 267-275 and convert_to_decimal to bounded inputs.    *)
(***************************************************************************)
EXTENDS Integers, Sequences, FiniteSets, TLC

\* Number of script runs (cycles) explored; every run gets a fresh timestamp.
MaxCycles == 3

\* Bound on the appends between two clears of the backlog store.
MaxBacklog == 4

\* len(REGISTER_LIST)
RegCount == 32

\* time.sleep(10) in the SerialException and ConnectionError handlers
GraceDelay == 10

\* The processes running the script.  The reference deployment runs one.
Procs == {1}

\* Values a decoded phase-current register can take.  convert_to_decimal
\* never returns 0 (the mantissa is at least 1), but it returns both signs.
Currents == {-1, 1, 2}

\* Positions of values_list that the phase-imbalance computation reads.
ImbalanceIdx == {5, 6, 7}

VARIABLES
    csvExists,    \* os.path.exists(CSV_FILE_NAME)
    csv,          \* the lines of the CSV file, in file order
    accepted,     \* collector: number of POSTs answered 2xx, per reading
    nextId,       \* number of cycles started so far (timestamps handed out)
    constructed,  \* readings whose final_dict was built (line 285)
    pc,           \* per process: position in the script
    cycle,        \* per process: time_now of the running cycle
    regIdx,       \* per process: loop variable i of the register loop
    values_list,  \* per process: decoded values at the positions in ImbalanceIdx
    final_dict,   \* per process: the dictionary written to the file / POSTed
    connected,    \* per process: result of is_connected, "unknown" before it ran
    rowPos,       \* per process: line of the file the DictReader yields next
    posts,        \* per process: the POSTs attempted in this cycle, in order
    raised,       \* per process: the exception in flight or handled, "none"
    exitHow,      \* per process: how the last run ended
    slept,        \* per process: seconds slept in an except clause
    startCsv,     \* per process: file content when the cycle started
    clearCalled,  \* per process: clear_csv was entered in this cycle
    phase_imbalance, \* per process: the local of line 275, a fraction num/den
    register_value,  \* convert_to_decimal: the two words read from a register
    decimal_number,  \* convert_to_decimal: its result, sign * sig * 2^exp
    appended      \* backlog store: readings appended since the last clear_csv

vars == <<csvExists, csv, accepted, nextId, constructed, pc, cycle, regIdx,
          values_list, final_dict, connected, rowPos, posts, raised, exitHow,
          slept, startCsv, clearCalled, phase_imbalance, register_value,
          decimal_number, appended>>

filevars == <<csvExists, csv>>
cyclevars == <<cycle, startCsv>>
decodevars == <<register_value, decimal_number>>

-----------------------------------------------------------------------------
\* Lines of the CSV file.

\* The header row written by writeheader(): the names of PARAMETER_NAME_LIST.
HeaderLine == [kind |-> "header", id |-> 0]

\* A header row of a file that was on disk before this version ran: the same
\* names with the last column called rpi_ip_address, the name line 356 reads.
LegacyHeaderLine == [kind |-> "legacy_header", id |-> 0]

\* The row writerow(final_dict) writes for the reading with timestamp r.
RowLine(r) == [kind |-> "row", id |-> r]

ReadingIds == 1..MaxCycles

\* The readings stored in a file, as a set.
Stored(file) == {file[k].id : k \in {j \in 1..Len(file) : file[j].kind = "row"}}

\* row['timestamp'] ... row['meter_id'] (lines 309-355) succeed when the
\* DictReader's field names are those of PARAMETER_NAME_LIST.
CommonFieldsPresent(file) ==
    Len(file) >= 1 /\ file[1].kind \in {"header", "legacy_header"}

\* row['rpi_ip_address'] (line 356) succeeds when the field names hold it.
RpiFieldPresent(file) ==
    Len(file) >= 1 /\ file[1].kind = "legacy_header"

-----------------------------------------------------------------------------
\* Exceptions and the except clauses of get_and_send_readings.

InstrumentErrors == {"SerialException", "AttributeError"}
ReadErrors == {"IllegalRequestError", "SerialException", "NoResponseError"}
PostErrors == {"ConnectionError", "Timeout", "AttributeError"}
PostResponses == {"2xx", "non2xx"}

\* The except clauses (lines 365-382): how the run ends and how long it
\* sleeps first.  An exception no clause names leaves the function and ends
\* the process with a traceback.
Handler(exc) ==
    CASE exc = "IllegalRequestError" -> [how |-> "return", slept |-> 0]
      [] exc = "SerialException" -> [how |-> "sys_exit", slept |-> GraceDelay]
      [] exc = "ConnectionError" -> [how |-> "return", slept |-> GraceDelay]
      [] exc = "Timeout" -> [how |-> "return", slept |-> 0]
      [] OTHER -> [how |-> "uncaught", slept |-> 0]

\* Raising exc in process p: control moves to the except clauses.
RaiseSwallowed(p, exc) ==
    /\ pc' = [pc EXCEPT ![p] = "probe"]
    /\ raised' = [raised EXCEPT ![p] = exc]

Raise(p, exc) ==
    /\ pc' = [pc EXCEPT ![p] = "except"]
    /\ raised' = [raised EXCEPT ![p] = exc]

-----------------------------------------------------------------------------
NoDict == [row |-> 0, ip_address |-> 0, rpi_ip_address |-> 0]

\* A Python float that is the quotient of two exactly known numbers is kept as
\* the fraction num/den; NoFraction is the local before line 275 assigns it.
NoFraction == [num |-> 0, den |-> 0]

\* decimal_number before convert_to_decimal has run.
NoNumber == [neg |-> FALSE, sig |-> 0, exp |-> 0]

\* What is the same at the start of every specification below: nothing read,
\* nothing computed, nothing sent.
InitIdleOn(procs) ==
    /\ accepted = [r \in ReadingIds |-> 0]
    /\ constructed = {}
    /\ final_dict = [p \in procs |-> NoDict]
    /\ connected = [p \in procs |-> "unknown"]
    /\ rowPos = [p \in procs |-> 0]
    /\ posts = [p \in procs |-> << >>]
    /\ raised = [p \in procs |-> "none"]
    /\ exitHow = [p \in procs |-> "none"]
    /\ slept = [p \in procs |-> 0]
    /\ clearCalled = [p \in procs |-> FALSE]
    /\ phase_imbalance = [p \in procs |-> NoFraction]
    /\ decimal_number = NoNumber
    /\ appended = << >>

InitIdle == InitIdleOn(Procs)

Init ==
    /\ \/ csvExists = FALSE /\ csv = << >>
       \/ csvExists = TRUE /\ csv \in {<<HeaderLine>>, <<LegacyHeaderLine>>}
    /\ nextId = 0
    /\ pc = [p \in Procs |-> "main"]
    /\ cycle = [p \in Procs |-> 0]
    /\ regIdx = [p \in Procs |-> 0]
    /\ values_list = [p \in Procs |-> << >>]
    /\ startCsv = [p \in Procs |-> << >>]
    /\ register_value = <<0, 0>>
    /\ InitIdle

-----------------------------------------------------------------------------
\* The __main__ block (lines 384-412) up to the call, and the first lines of
\* get_and_send_readings (239-248): the CSV file is created with its header
\* only when it is absent, then the cycle takes its timestamp.
EnsureInitializedAlways(exists, file) == <<HeaderLine>>

EnsureInitialized(exists, file) == IF exists THEN file ELSE <<HeaderLine>>

Startup(p) ==
    /\ pc[p] = "main"
    /\ csv' = EnsureInitialized(csvExists, csv)
    /\ csvExists' = TRUE
    /\ nextId' = nextId + 1
    /\ cycle' = [cycle EXCEPT ![p] = nextId + 1]
    /\ startCsv' = [startCsv EXCEPT ![p] = csv']
    /\ regIdx' = [regIdx EXCEPT ![p] = 0]
    /\ values_list' = [values_list EXCEPT ![p] = << >>]
    /\ final_dict' = [final_dict EXCEPT ![p] = NoDict]
    /\ connected' = [connected EXCEPT ![p] = "unknown"]
    /\ rowPos' = [rowPos EXCEPT ![p] = 0]
    /\ posts' = [posts EXCEPT ![p] = << >>]
    /\ raised' = [raised EXCEPT ![p] = "none"]
    /\ exitHow' = [exitHow EXCEPT ![p] = "none"]
    /\ slept' = [slept EXCEPT ![p] = 0]
    /\ clearCalled' = [clearCalled EXCEPT ![p] = FALSE]
    /\ pc' = [pc EXCEPT ![p] = "instrument"]
    /\ phase_imbalance' = [phase_imbalance EXCEPT ![p] = NoFraction]
    /\ UNCHANGED <<decodevars, appended, accepted, constructed>>

\* Lines 253-258: the instrument is opened and configured.  The constructor
\* raises SerialException when the device is absent; line 258 reads the
\* attribute `seial`, which raises AttributeError on an Instrument that has
\* no such attribute.
OpenInstrument(p) ==
    /\ pc[p] = "instrument"
    /\ \/ /\ pc' = [pc EXCEPT ![p] = "read"]
          /\ UNCHANGED raised
       \/ \E exc \in InstrumentErrors : Raise(p, exc)
    /\ UNCHANGED <<decodevars, appended, phase_imbalance, filevars, accepted, nextId, constructed, cyclevars, regIdx,
                   values_list, final_dict, connected, rowPos, posts, exitHow,
                   slept, clearCalled>>

\* values_list after appending the value decoded from register i: position
\* 0 holds the timestamp, so register i lands at position i + 1.
AppendValue(vl, i, v) == IF (i + 1) \in ImbalanceIdx THEN vl @@ ((i + 1) :> v) ELSE vl

\* Lines 260-265: one iteration of the register loop.
ReadRegister(p) ==
    /\ pc[p] = "read"
    /\ regIdx[p] < RegCount
    /\ \/ /\ \E v \in (IF (regIdx[p] + 1) \in ImbalanceIdx THEN Currents ELSE {1}) :
                values_list' = [values_list EXCEPT ![p] = AppendValue(@, regIdx[p], v)]
          /\ regIdx' = [regIdx EXCEPT ![p] = @ + 1]
          /\ pc' = [pc EXCEPT ![p] = IF regIdx[p] + 1 = RegCount THEN "compute" ELSE "read"]
          /\ UNCHANGED raised
       \/ /\ \E exc \in ReadErrors : Raise(p, exc)
          /\ UNCHANGED <<regIdx, values_list>>
    /\ UNCHANGED <<decodevars, appended, phase_imbalance, filevars, accepted, nextId, constructed, cyclevars,
                   final_dict, connected, rowPos, posts, exitHow, slept, clearCalled>>

\* Lines 269-273: the sum whose third is avg_current.
CurrentSum(vl) == vl[5] + vl[6] + vl[7]

\* Line 273: avg_current = (r_current + y_current + b_current) / 3.
AvgCurrent(vl) == [num |-> CurrentSum(vl), den |-> 3]

\* Line 274, with min in the place of max.
MinCurrent(vl) ==
    CHOOSE m \in {vl[i] : i \in ImbalanceIdx} : \A i \in ImbalanceIdx : m <= vl[i]

\* Line 274: max_current = max(r_current, y_current, b_current).
MaxCurrent(vl) ==
    CHOOSE m \in {vl[i] : i \in ImbalanceIdx} : \A i \in ImbalanceIdx : m >= vl[i]

\* Line 275: phase_imbalance = max_current / avg_current, that is
\* max_current * 3 / sum.
PhaseImbalance(vl) ==
    [num |-> MaxCurrent(vl) * AvgCurrent(vl).den, den |-> AvgCurrent(vl).num]

\* Line 285: the dictionary of the new reading.
NewDict(r) == [row |-> r, ip_address |-> r, rpi_ip_address |-> 0]

\* Lines 267-285: phase imbalance, get_ip (which never raises) and the zip
\* into final_dict.  The division raises ZeroDivisionError when the three
\* currents sum to zero.
Compute(p) ==
    /\ pc[p] = "compute"
    /\ IF CurrentSum(values_list[p]) = 0
       THEN /\ Raise(p, "ZeroDivisionError")
            /\ UNCHANGED <<final_dict, constructed, phase_imbalance>>
       ELSE /\ phase_imbalance' =
                  [phase_imbalance EXCEPT ![p] = PhaseImbalance(values_list[p])]
            /\ final_dict' = [final_dict EXCEPT ![p] = NewDict(cycle[p])]
            /\ constructed' = constructed \cup {cycle[p]}
            /\ pc' = [pc EXCEPT ![p] = "probe"]
            /\ UNCHANGED raised
    /\ UNCHANGED <<decodevars, appended, filevars, accepted, nextId, cyclevars, regIdx,
                   values_list, connected, rowPos, posts, exitHow, slept,
                   clearCalled>>

\* Line 287: `if not is_connected(...)` takes the offline branch.
OfflineBranchInverted(reachable) == reachable

OfflineBranch(reachable) == ~reachable

\* Lines 189-220 and 287: is_connected swallows every exception and answers
\* True or False.
Probe(p) ==
    /\ pc[p] = "probe"
    /\ \E reachable \in BOOLEAN :
          /\ connected' = [connected EXCEPT ![p] = IF reachable THEN "online" ELSE "offline"]
          /\ pc' = [pc EXCEPT ![p] = IF OfflineBranch(reachable) THEN "offline_append"
                                     ELSE "online_append"]
    /\ UNCHANGED <<decodevars, appended, phase_imbalance, filevars, accepted, nextId, constructed, cyclevars, regIdx,
                   values_list, final_dict, rowPos, posts, raised, exitHow, slept,
                   clearCalled>>

\* open(CSV_FILE_NAME, 'a+') and writerow(final_dict): one row at the end.
WriteRowTruncating(file, d) == <<RowLine(d.row)>>

WriteRow(file, d) == Append(file, RowLine(d.row))

\* Lines 291-293: the offline branch appends the reading.
OfflineAppend(p) ==
    /\ pc[p] = "offline_append"
    /\ \/ /\ csv' = WriteRow(csv, final_dict[p])
          /\ csvExists' = TRUE
          /\ pc' = [pc EXCEPT ![p] = "log_added"]
          /\ UNCHANGED raised
       \/ /\ Raise(p, "OSError")
          /\ UNCHANGED filevars
    /\ UNCHANGED <<decodevars, appended, phase_imbalance, accepted, nextId, constructed, cyclevars, regIdx, values_list,
                   final_dict, connected, rowPos, posts, exitHow, slept, clearCalled>>

\* The first line a DictReader yields as a row: the one after the field names.
FirstRowPos == 2

\* Lines 301-307: the online branch appends the reading, then opens the file
\* for reading.
OnlineAppend(p) ==
    /\ pc[p] = "online_append"
    /\ \/ /\ csv' = WriteRow(csv, final_dict[p])
          /\ csvExists' = TRUE
          /\ rowPos' = [rowPos EXCEPT ![p] = FirstRowPos]
          /\ pc' = [pc EXCEPT ![p] = "replay"]
          /\ UNCHANGED raised
       \/ /\ Raise(p, "OSError")
          /\ UNCHANGED <<filevars, rowPos>>
    /\ UNCHANGED <<decodevars, appended, phase_imbalance, accepted, nextId, constructed, cyclevars, regIdx, values_list,
                   final_dict, connected, posts, exitHow, slept, clearCalled>>

\* Lines 309-356: the stored row is copied into final_dict.  ip_address is
\* not assigned, so it keeps the value of the current reading; the key
\* rpi_ip_address is added.
CopyRow(d, row) == [row |-> row.id, ip_address |-> d.ip_address, rpi_ip_address |-> row.id]

\* Lines 309-355 done, line 356 raised: every field but the last was copied.
CopyCommon(d, row) == [d EXCEPT !.row = row.id]

\* Line 358 has no check of the response: the loop goes on to the next row
\* after any response, and stops only when the call raises.
PostAborts(outcome) == outcome \in PostErrors

\* Line 358 passes no timeout argument to the HTTP client, which then waits
\* for the response without limit.
PostTimeout == "none"

\* A collector that accepts the connection and never answers: the call raises
\* Timeout when it was given a timeout, and does not return otherwise.
SilentCollector(timeout) == IF timeout = "none" THEN "no_return" ELSE "Timeout"

\* The DictReader moves on: a stored row is yielded once per replay.
NextRowStuck(pos) == pos

NextRow(pos) == pos + 1

\* The collector counts a reading as received when it answers 2xx.
Receive(acc, r, outcome) == IF outcome = "2xx" THEN [acc EXCEPT ![r] = @ + 1] ELSE acc

\* Lines 308-358: one iteration of the replay loop.  The lookups of lines
\* 309-356 raise KeyError for a name the file's first line does not hold.
\* Line 358 calls requests.POST: the attribute lookup raises AttributeError
\* where the HTTP client has no attribute of that name (nothing is sent);
\* otherwise the POST is answered, refused, times out in the transport, or
\* meets a collector that never answers.
ReplayRow(p) ==
    /\ pc[p] = "replay"
    /\ rowPos[p] <= Len(csv)
    /\ LET row == csv[rowPos[p]] IN
       \/ /\ ~CommonFieldsPresent(csv)
          /\ Raise(p, "KeyError")
          /\ UNCHANGED <<final_dict, posts, accepted, rowPos>>
       \/ /\ CommonFieldsPresent(csv) /\ ~RpiFieldPresent(csv)
          /\ final_dict' = [final_dict EXCEPT ![p] = CopyCommon(@, row)]
          /\ Raise(p, "KeyError")
          /\ UNCHANGED <<posts, accepted, rowPos>>
       \/ /\ CommonFieldsPresent(csv) /\ RpiFieldPresent(csv)
          /\ final_dict' = [final_dict EXCEPT ![p] = CopyRow(@, row)]
          /\ \/ /\ Raise(p, "AttributeError")
                /\ UNCHANGED <<posts, accepted, rowPos>>
             \/ \E outcome \in PostResponses \cup {"ConnectionError", "Timeout"} :
                   /\ posts' = [posts EXCEPT ![p] =
                          Append(@, [payload |-> final_dict'[p], outcome |-> outcome])]
                   /\ accepted' = Receive(accepted, row.id, outcome)
                   /\ IF PostAborts(outcome)
                      THEN Raise(p, outcome) /\ UNCHANGED rowPos
                      ELSE /\ rowPos' = [rowPos EXCEPT ![p] = NextRow(@)]
                           /\ UNCHANGED <<pc, raised>>
             \/ /\ posts' = [posts EXCEPT ![p] = Append(@,
                        [payload |-> final_dict'[p],
                         outcome |-> SilentCollector(PostTimeout)])]
                /\ IF SilentCollector(PostTimeout) = "no_return"
                   THEN pc' = [pc EXCEPT ![p] = "post_wait"] /\ UNCHANGED raised
                   ELSE Raise(p, SilentCollector(PostTimeout))
                /\ UNCHANGED <<accepted, rowPos>>
    /\ UNCHANGED <<decodevars, appended, phase_imbalance, filevars, nextId, constructed,
                   cyclevars, regIdx, values_list, connected, exitHow, slept, clearCalled>>

\* Lines 359-362: the loop is exhausted and clear_csv is called.
ReplayDone(p) ==
    /\ pc[p] = "replay"
    /\ rowPos[p] > Len(csv)
    /\ clearCalled' = [clearCalled EXCEPT ![p] = TRUE]
    /\ pc' = [pc EXCEPT ![p] = "clear_truncate"]
    /\ UNCHANGED <<decodevars, appended, phase_imbalance, filevars, accepted, nextId, constructed, cyclevars, regIdx,
                   values_list, final_dict, connected, rowPos, posts, raised,
                   exitHow, slept>>

\* Lines 183-184 of clear_csv: open(file_name, 'w+') and close leave the file
\* empty.
TruncateFile(file) == << >>

\* Lines 185-187, without the writeheader() call.
WriteHeaderMissing(file) == << >>

\* Lines 185-187 of clear_csv: open(file_name, 'w') empties the file, then
\* writeheader() writes the line of PARAMETER_NAME_LIST.
WriteHeader(file) == <<HeaderLine>>

\* clear_csv as a whole (168-187).
ClearCsv(file) == WriteHeader(TruncateFile(file))

\* Lines 306-308: what csv.DictReader yields, the lines after the first, which
\* it takes as the field names.
ReadAll(file) == [k \in 1..(Len(file) - (FirstRowPos - 1)) |-> file[k + FirstRowPos - 1].id]

ClearTruncate(p) ==
    /\ pc[p] = "clear_truncate"
    /\ \/ /\ csv' = TruncateFile(csv)
          /\ csvExists' = TRUE
          /\ pc' = [pc EXCEPT ![p] = "clear_header"]
          /\ UNCHANGED raised
       \/ /\ Raise(p, "OSError")
          /\ UNCHANGED filevars
    /\ UNCHANGED <<decodevars, appended, phase_imbalance, accepted, nextId, constructed, cyclevars, regIdx, values_list,
                   final_dict, connected, rowPos, posts, exitHow, slept, clearCalled>>

\* Lines 185-187 of clear_csv: the file is opened with 'w' and the header
\* is written.
ClearWriteHeader(p) ==
    /\ pc[p] = "clear_header"
    /\ \/ /\ csv' = WriteHeader(csv)
          /\ csvExists' = TRUE
          /\ pc' = [pc EXCEPT ![p] = "log_added"]
          /\ UNCHANGED raised
       \/ /\ Raise(p, "OSError")
          /\ UNCHANGED filevars
    /\ UNCHANGED <<decodevars, appended, phase_imbalance, accepted, nextId, constructed, cyclevars, regIdx, values_list,
                   final_dict, connected, rowPos, posts, exitHow, slept, clearCalled>>

\* Line 363: logging.info, then the function and the script return.
LogAdded(p) ==
    /\ pc[p] = "log_added"
    /\ pc' = [pc EXCEPT ![p] = "exited"]
    /\ exitHow' = [exitHow EXCEPT ![p] = "return"]
    /\ UNCHANGED <<decodevars, appended, phase_imbalance, filevars, accepted, nextId, constructed, cyclevars, regIdx,
                   values_list, final_dict, connected, rowPos, posts, raised,
                   slept, clearCalled>>

\* Lines 365-382: the except clause that matches logs, sleeps and returns
\* or exits; with no match the exception ends the process.
HandleException(p) ==
    /\ pc[p] = "except"
    /\ slept' = [slept EXCEPT ![p] = Handler(raised[p]).slept]
    /\ exitHow' = [exitHow EXCEPT ![p] = Handler(raised[p]).how]
    /\ pc' = [pc EXCEPT ![p] = "exited"]
    /\ UNCHANGED <<decodevars, appended, phase_imbalance, filevars, accepted, nextId, constructed, cyclevars, regIdx,
                   values_list, final_dict, connected, rowPos, posts, raised,
                   clearCalled>>

\* The script is started again (cron, a supervisor) after it has ended.
Restart(p) ==
    /\ pc[p] = "exited"
    /\ nextId < MaxCycles
    /\ pc' = [pc EXCEPT ![p] = "main"]
    /\ UNCHANGED <<decodevars, appended, phase_imbalance, filevars, accepted, nextId, constructed, cyclevars, regIdx,
                   values_list, final_dict, connected, rowPos, posts, raised,
                   exitHow, slept, clearCalled>>

\* The process is killed or the host loses power in the middle of a cycle.
Crash(p) ==
    /\ pc[p] \notin {"main", "exited"}
    /\ pc' = [pc EXCEPT ![p] = "exited"]
    /\ exitHow' = [exitHow EXCEPT ![p] = "killed"]
    /\ UNCHANGED <<decodevars, appended, phase_imbalance, filevars, accepted, nextId, constructed, cyclevars, regIdx,
                   values_list, final_dict, connected, rowPos, posts, raised,
                   slept, clearCalled>>

\* Lines 384-265: startup and the reads from the meter.
Acquire(p) ==
    \/ Startup(p)
    \/ OpenInstrument(p)
    \/ ReadRegister(p)

\* Lines 267-382: from the values read to the end of the run.
Deliver(p) ==
    \/ Compute(p)
    \/ Probe(p)
    \/ OfflineAppend(p)
    \/ OnlineAppend(p)
    \/ ReplayRow(p)
    \/ ReplayDone(p)
    \/ ClearTruncate(p)
    \/ ClearWriteHeader(p)
    \/ LogAdded(p)
    \/ HandleException(p)

Step(p) ==
    \/ Acquire(p)
    \/ Deliver(p)
    \/ Restart(p)

Next == \E p \in Procs : Step(p)

Spec == Init /\ [][Next]_vars

\* The same program on a host that can lose power or kill the process.
NextCrash == \E p \in Procs : Step(p) \/ Crash(p)

SpecCrash == Init /\ [][NextCrash]_vars

-----------------------------------------------------------------------------
\* Vocabulary of the properties.

\* The file a cycle leaves after its own append: what it found, then its row.
CycleFile(p) == Append(startCsv[p], RowLine(cycle[p]))

IsRow(line) == line.kind = "row"

\* The readings stored in a file, in stored order, whatever its first line.
Entries(file) == [k \in 1..Len(SelectSeq(file, IsRow)) |-> SelectSeq(file, IsRow)[k].id]

\* The readings POSTed so far in the cycle of p, in the order of the POSTs.
PostedIds(p) == [k \in 1..Len(posts[p]) |-> posts[p][k].payload.row]

AllAccepted(p) == \A k \in 1..Len(posts[p]) : posts[p][k].outcome = "2xx"

\* The run of p has ended (the cycle boundary).
AtBoundary(p) == pc[p] = "exited"

\* The run ended by sys.exit(1) after a logged error, or with a traceback.
HaltedWithError(p) == exitHow[p] \in {"sys_exit", "uncaught"}

-----------------------------------------------------------------------------
\* C1: at every cycle boundary that is not a halt with a reported error,
\* every reading that was in the backlog when the cycle started, and the
\* reading the cycle constructed, is still in the backlog or has been
\* acknowledged (2xx) by the collector.
C1_NoSilentDrop ==
    \A p \in Procs :
        (AtBoundary(p) /\ ~HaltedWithError(p)) =>
            \A r \in Stored(startCsv[p]) \cup ({cycle[p]} \cap constructed) :
                r \in Stored(csv) \/ accepted[r] >= 1

\* C2: clear_csv is entered in a cycle only if every entry of the backlog,
\* the new reading included, was POSTed and answered 2xx.
C2_ClearOnlyAfterAll2xx ==
    \A p \in Procs :
        clearCalled[p] =>
            /\ Len(posts[p]) = Len(Entries(CycleFile(p)))
            /\ AllAccepted(p)

\* C3: when the k-th transmission of a replay fails (anything but 2xx),
\* nothing after the k-th entry is transmitted, clear_csv is not entered,
\* the file holds exactly the entries the replay started with, and the
\* cycle ends reporting a delivery error.
C3_FlushAtomicity ==
    \A p \in Procs :
        \A k \in 1..Len(posts[p]) :
            posts[p][k].outcome # "2xx" =>
                /\ Len(posts[p]) = k
                /\ ~clearCalled[p]
                /\ csv = CycleFile(p)
                /\ AtBoundary(p) =>
                      /\ raised[p] \in {"ConnectionError", "Timeout"}
                      /\ exitHow[p] = "return"

\* C4: an ONLINE cycle that found m entries POSTs the m stored entries in
\* stored order and then the new reading, one POST each, and enters
\* clear_csv only after all m + 1 were answered 2xx.
C4_ReplayInOrderThenClear ==
    \A p \in Procs :
        connected[p] = "online" =>
            /\ Len(posts[p]) <= Len(Entries(CycleFile(p)))
            /\ \A k \in 1..Len(posts[p]) : PostedIds(p)[k] = Entries(CycleFile(p))[k]
            /\ clearCalled[p] =>
                  /\ PostedIds(p) = Entries(CycleFile(p))
                  /\ AllAccepted(p)

\* C5: in an OFFLINE cycle nothing is POSTed, clear_csv is not entered, and
\* the file is what the cycle found, with the new reading as its last row
\* once the append is done.
C5_OfflineOnlyAppends ==
    \A p \in Procs :
        connected[p] = "offline" =>
            /\ posts[p] = << >>
            /\ ~clearCalled[p]
            /\ csv \in {startCsv[p], CycleFile(p)}
            /\ pc[p] = "offline_append" => csv = startCsv[p]
            /\ (pc[p] = "log_added" \/ (AtBoundary(p) /\ raised[p] = "none")) =>
                  csv = CycleFile(p)

\* C5 witness: an OFFLINE cycle that found stored readings has returned.
C5_Witness ==
    \E p \in Procs :
        /\ connected[p] = "offline"
        /\ AtBoundary(p) /\ exitHow[p] = "return" /\ raised[p] = "none"
        /\ Len(Entries(startCsv[p])) >= 1

\* C6: an ONLINE cycle in which the collector answered every POST with 2xx,
\* and in which neither a file operation nor the HTTP client itself failed,
\* ends without an error and with a backlog that holds the header only.
C6_OnlineAcceptedFlushes ==
    \A p \in Procs :
        (AtBoundary(p) /\ connected[p] = "online" /\ AllAccepted(p)
                       /\ raised[p] \notin {"OSError", "AttributeError"}) =>
            /\ raised[p] = "none"
            /\ exitHow[p] = "return"
            /\ csv = <<HeaderLine>>

\* C7 as stated: no reading is accepted by the collector more than once.
C7_ExactlyOnce == \A r \in ReadingIds : accepted[r] <= 1

\* C7 amended: within one cycle every entry is POSTed at most once, in
\* stored order; across cycles a reading is accepted at most once per cycle
\* run since it was constructed.
C7_AtMostOncePerCycle ==
    /\ \A p \in Procs :
          \A j, k \in 1..Len(posts[p]) :
              j # k => PostedIds(p)[j] # PostedIds(p)[k]
    /\ \A r \in ReadingIds :
          accepted[r] <= (IF r <= nextId THEN nextId - r + 1 ELSE 0)

\* C7 witness: a reading accepted in a replay that was then aborted is
\* accepted again by the next replay.
C7_Witness ==
    \E p \in Procs : \E r \in ReadingIds :
        /\ accepted[r] = 2
        /\ r < cycle[p]
        /\ r \in Stored(csv)

\* C8: when the instrument or a register read raises, the cycle has no side
\* effect: no reading is constructed, the file is what the cycle found,
\* is_connected is not consulted, nothing is POSTed, clear_csv is not entered.
C8_ReadFailureNoSideEffects ==
    \A p \in Procs :
        (pc[p] \in {"except", "exited"} /\ raised[p] \in ReadErrors) =>
            /\ cycle[p] \notin constructed
            /\ final_dict[p] = NoDict
            /\ csv = startCsv[p]
            /\ connected[p] = "unknown"
            /\ posts[p] = << >>
            /\ ~clearCalled[p]

\* C8 witness: register index 10 of 32 failed with readings in the backlog.
C8_Witness ==
    \E p \in Procs :
        /\ AtBoundary(p)
        /\ raised[p] = "IllegalRequestError"
        /\ regIdx[p] = 10
        /\ Len(Entries(startCsv[p])) >= 2

\* C9: a transport, persist or delivery failure is caught and the run
\* returns normally; only the device-absent error ends the process, by
\* sys.exit after the grace delay.
C9_FailuresCaughtAtBoundary ==
    \A p \in Procs :
        (AtBoundary(p) /\ raised[p] \in ReadErrors \cup {"OSError", "ConnectionError", "Timeout"}) =>
            \/ exitHow[p] = "return"
            \/ /\ exitHow[p] = "sys_exit"
               /\ raised[p] = "SerialException"
               /\ slept[p] = GraceDelay

\* C10: in the ONLINE path, from the append until clear_csv is entered, the
\* file holds every entry the cycle found and the new reading, whatever
\* happens in between, a kill of the process included; no POST is made
\* before the append, and the next run starts from the file as it was left.
C10_AppendBeforePostCrashSafe ==
    \A p \in Procs :
        /\ (connected[p] = "online" /\ rowPos[p] >= FirstRowPos /\ ~clearCalled[p]) =>
              csv = CycleFile(p)
        /\ Len(posts[p]) > 0 => rowPos[p] >= FirstRowPos
        /\ pc[p] = "online_append" => posts[p] = << >>
        /\ pc[p] = "instrument" => startCsv[p] = csv

\* C10 witness: the process was killed in the middle of a replay, after a
\* POST, with earlier readings in the backlog.
C10_Witness ==
    \E p \in Procs :
        /\ AtBoundary(p) /\ exitHow[p] = "killed"
        /\ connected[p] = "online"
        /\ Len(posts[p]) >= 1
        /\ ~clearCalled[p]
        /\ Len(Entries(startCsv[p])) >= 1

-----------------------------------------------------------------------------
\* The backlog store on its own: the three file operations of the script,
\* writerow in append mode (291-293, 301-303), clear_csv (168-187) and the
\* DictReader (306-308), applied in any order to an initialized file.
InitStore ==
    /\ csvExists = TRUE
    /\ csv \in {EnsureInitialized(FALSE, << >>), EnsureInitialized(TRUE, <<HeaderLine>>),
                EnsureInitialized(TRUE, <<LegacyHeaderLine>>)}
    /\ nextId = 0
    /\ pc = [p \in Procs |-> "store"]
    /\ cycle = [p \in Procs |-> 0]
    /\ regIdx = [p \in Procs |-> 0]
    /\ values_list = [p \in Procs |-> << >>]
    /\ startCsv = [p \in Procs |-> << >>]
    /\ register_value = <<0, 0>>
    /\ InitIdle

storeframe == <<csvExists, accepted, nextId, constructed, pc, cycle, regIdx, values_list,
                final_dict, connected, rowPos, posts, raised, exitHow, slept, startCsv,
                phase_imbalance, register_value, decimal_number>>

StoreAppend(p) ==
    /\ pc[p] = "store"
    /\ Len(appended) < MaxBacklog
    /\ \E r \in ReadingIds :
          /\ csv' = WriteRow(csv, NewDict(r))
          /\ appended' = Append(appended, r)
    /\ UNCHANGED <<storeframe, clearCalled>>

StoreClear(p) ==
    /\ pc[p] = "store"
    /\ csv' = ClearCsv(csv)
    /\ appended' = << >>
    /\ clearCalled' = [clearCalled EXCEPT ![p] = TRUE]
    /\ UNCHANGED storeframe

NextStore == \E p \in Procs : StoreAppend(p) \/ StoreClear(p)

SpecStore == InitStore /\ [][NextStore]_vars

\* C12: after any sequence of appends and clears on the backlog file, reading
\* it back yields exactly the readings appended since the last clear, in the
\* order of their appends; and clearing a cleared file changes nothing.
C12_StoreSemantics ==
    /\ ReadAll(csv) = appended
    /\ ClearCsv(ClearCsv(csv)) = ClearCsv(csv)

\* The file was cleared, then two different readings were appended.
C12_Witness ==
    \E p \in Procs :
        /\ pc[p] = "store"
        /\ clearCalled[p]
        /\ Len(appended) = 2
        /\ appended[1] # appended[2]
        /\ ReadAll(csv) = appended

-----------------------------------------------------------------------------
\* Two invocations of the script on the same host, sharing the CSV file (a
\* scheduler that starts a run while the previous one is still in its POSTs
\* or in the sleep of lines 372-378).  Nothing in the script locks the file,
\* so the steps of the two runs interleave freely.  The specification starts
\* where both runs have read their 32 registers (line 265 done): startup has
\* run, the file exists, and each run holds its own timestamp.
ConcProcs == {1, 2}

InitConc ==
    /\ csvExists = TRUE
    /\ csv \in {<<HeaderLine>>, <<LegacyHeaderLine>>}
    /\ nextId = Cardinality(ConcProcs)
    /\ pc = [p \in ConcProcs |-> "compute"]
    /\ cycle = [p \in ConcProcs |-> p]
    /\ regIdx = [p \in ConcProcs |-> RegCount]
    /\ values_list \in [ConcProcs -> [ImbalanceIdx -> Currents]]
    /\ startCsv = [p \in ConcProcs |-> csv]
    /\ register_value = <<0, 0>>
    /\ InitIdleOn(ConcProcs)

NextConc == \E p \in ConcProcs : Deliver(p)

SpecConc == InitConc /\ [][NextConc]_vars

\* The reading of process p was sent in a POST by some process.
Transmitted(p) ==
    \E q \in ConcProcs : \E k \in 1..Len(posts[q]) : posts[q][k].payload.row = cycle[p]

\* C13: when two cycles overlap on the same file, the flush of one is atomic
\* with respect to the other: a reading that a cycle has appended, and whose
\* own cycle has not cleared the file, is still in the file or was sent in a
\* POST; the clear of the other cycle never removes it unsent.
C13_NoLossToOtherClear ==
    \A p \in ConcProcs :
        (pc[p] \in {"log_added", "replay", "post_wait"} /\ ~clearCalled[p]) =>
            (cycle[p] \in Stored(csv) \/ Transmitted(p))

\* C14: every cycle terminates: the probe and every POST are bounded by a
\* timeout, so a run that has not reached its end can always take its next
\* step, also when the collector accepts the connection and never answers.
C14_CycleNeverBlocks ==
    \A p \in Procs : pc[p] = "exited" \/ ENABLED Step(p)

-----------------------------------------------------------------------------
\* The phase imbalance on its own: lines 267-275 applied to every combination
\* of the values decoded for r_curr, y_curr, b_curr and r_active_curr, which
\* PARAMETER_NAME_LIST (60-70) puts at positions 4, 5, 6 and 7 of values_list.
PhaseCurrentIdx == {4, 5, 6}

InitImbalance ==
    /\ csvExists = TRUE
    /\ csv = <<HeaderLine>>
    /\ nextId = 1
    /\ pc = [p \in Procs |-> "compute"]
    /\ cycle = [p \in Procs |-> 1]
    /\ regIdx = [p \in Procs |-> RegCount]
    /\ values_list \in [Procs -> [PhaseCurrentIdx \cup ImbalanceIdx -> Currents]]
    /\ startCsv = [p \in Procs |-> csv]
    /\ register_value = <<0, 0>>
    /\ InitIdle

NextImbalance == \E p \in Procs : Compute(p) \/ HandleException(p)

SpecImbalance == InitImbalance /\ [][NextImbalance]_vars

\* Fractions with non-zero denominators: equality and order.
SameFraction(a, b) == a.den # 0 /\ b.den # 0 /\ a.num * b.den = b.num * a.den

FractionLeq(a, b) ==
    a.den # 0 /\ b.den # 0 /\ a.num * a.den * b.den * b.den <= b.num * b.den * a.den * a.den

Whole(n) == [num |-> n, den |-> 1]

\* max / mean of the values at the positions idx of vl.
MaxOverMean(vl, idx) ==
    [num |-> Cardinality(idx) * (CHOOSE m \in {vl[i] : i \in idx} : \A i \in idx : m >= vl[i]),
     den |-> LET RECURSIVE Sum(_)
                 Sum(S) == IF S = {} THEN 0
                           ELSE LET i == CHOOSE j \in S : TRUE IN vl[i] + Sum(S \ {i})
             IN Sum(idx)]

\* Process p has computed phase_imbalance at line 275.
Computed(p) == phase_imbalance[p] # NoFraction

\* C15: the phase_imbalance of a reading is max / mean of its r_curr, y_curr
\* and b_curr, the values of the 4th, 5th and 6th registers; no other field
\* enters the computation.
C15_ImbalanceOfPhaseCurrents ==
    \A p \in Procs :
        Computed(p) =>
            SameFraction(phase_imbalance[p], MaxOverMean(values_list[p], PhaseCurrentIdx))

\* C16: for every triple of currents with a non-zero mean, negative and
\* mixed-sign ones included, the phase imbalance lies in [1, 3].
C16_ImbalanceBetween1And3 ==
    \A p \in Procs :
        Computed(p) =>
            /\ FractionLeq(Whole(1), phase_imbalance[p])
            /\ FractionLeq(phase_imbalance[p], Whole(3))

\* C16 as it holds: when the three currents are positive, the phase
\* imbalance lies in [1, 3].
C16_PositiveBetween1And3 ==
    \A p \in Procs :
        (Computed(p) /\ \A i \in ImbalanceIdx : values_list[p][i] > 0) =>
            /\ FractionLeq(Whole(1), phase_imbalance[p])
            /\ FractionLeq(phase_imbalance[p], Whole(3))

\* Three positive currents that are not all equal went through line 275.
C16_Witness ==
    \E p \in Procs :
        /\ Computed(p)
        /\ \A i \in ImbalanceIdx : values_list[p][i] > 0
        /\ \E i, j \in ImbalanceIdx : values_list[p][i] # values_list[p][j]
        /\ ~SameFraction(phase_imbalance[p], Whole(1))

\* C17: when the mean of the three currents is zero the computation fails
\* with a division error, no reading of that cycle is stored or sent, and the
\* failure ends the cycle as a handled error, not as a dead process.
C17_ZeroMeanHandled ==
    \A p \in Procs :
        (raised[p] = "ZeroDivisionError" /\ AtBoundary(p)) =>
            /\ ~HaltedWithError(p)
            /\ cycle[p] \notin Stored(csv)
            /\ \A k \in 1..Len(posts[p]) : posts[p][k].payload.row # cycle[p]

-----------------------------------------------------------------------------
\* convert_to_decimal and convert_mantissa on their own (82-139), applied to
\* pairs of 16-bit words as read_registers returns them.  A decoded number is
\* kept exactly, as (-1)^neg * sig * 2^exp; the Python float holds the same
\* value, since a 24-bit significand times a power of two between 2^-127 and
\* 2^128 is exact in a double.

\* The words the pairs are drawn from: 0x0000, 0x0001, 0x0080, 0x0FDB, 0x3F80,
\* 0x4049, 0x7F80, 0x8000, 0xBF80, 0xFFFF.
Words == {0, 1, 128, 4059, 16256, 16457, 32640, 32768, 49024, 65535}

\* '{0:016b}'.format(w), lines 133-134: sixteen binary digits, the highest
\* first.
Bits16(w) == [i \in 1..16 |-> (w \div (2 ^ (16 - i))) % 2]

\* Line 135: binary_string = parameter_value[1] + parameter_value[0], the word
\* read second in front of the word read first.
BinaryString(reg) == Bits16(reg[2]) \o Bits16(reg[1])

\* int(s, 2) of line 137.
RECURSIVE IntOfBits(_)
IntOfBits(bits) ==
    IF bits = << >> THEN 0
    ELSE 2 * IntOfBits(SubSeq(bits, 1, Len(bits) - 1)) + bits[Len(bits)]

\* convert_mantissa (103-107): the sum of bit_i * 2^-i, plus 1.  The result
\* is returned as an integer count of units of 2^-Len(bits).
RECURSIVE MantissaSum(_, _)
MantissaSum(bits, i) ==
    IF i > Len(bits) THEN 0
    ELSE bits[i] * (2 ^ (Len(bits) - i)) + MantissaSum(bits, i + 1)

ConvertMantissa(bits) == MantissaSum(bits, 1) + 2 ^ Len(bits)

\* convert_to_decimal (132-139).
ConvertToDecimal(reg) ==
    LET binary_string == BinaryString(reg)
        sign_bit == binary_string[1]
        exponent == IntOfBits(SubSeq(binary_string, 2, 9)) - 127
        mantissa_binary == SubSeq(binary_string, 10, 32)
    IN [neg |-> sign_bit = 1,
        sig |-> ConvertMantissa(mantissa_binary),
        exp |-> exponent - Len(mantissa_binary)]

InitDecode ==
    /\ csvExists = TRUE
    /\ csv = <<HeaderLine>>
    /\ nextId = 1
    /\ pc = [p \in Procs |-> "decode"]
    /\ cycle = [p \in Procs |-> 1]
    /\ regIdx = [p \in Procs |-> 0]
    /\ values_list = [p \in Procs |-> << >>]
    /\ startCsv = [p \in Procs |-> csv]
    /\ register_value \in Words \X Words
    /\ InitIdle

\* Line 264: the call convert_to_decimal(register_value).
Decode(p) ==
    /\ pc[p] = "decode"
    /\ decimal_number' = ConvertToDecimal(register_value)
    /\ pc' = [pc EXCEPT ![p] = "decoded"]
    /\ UNCHANGED <<filevars, accepted, nextId, constructed, cyclevars, regIdx, values_list,
                   final_dict, connected, rowPos, posts, raised, exitHow, slept,
                   clearCalled, phase_imbalance, register_value, appended>>

NextDecode == \E p \in Procs : Decode(p)

SpecDecode == InitDecode /\ [][NextDecode]_vars

\* IEEE 754 binary32 of the pattern hi * 2^16 + lo: sign 1 bit, exponent 8
\* bits biased by 127, fraction 23 bits; exponent field 0 is zero or a
\* subnormal (no implicit 1), exponent field 255 is an infinity or a NaN.
Binary32(hi, lo) ==
    LET s == hi \div 32768
        e == (hi \div 128) % 256
        f == (hi % 128) * 65536 + lo
    IN  IF e = 255 THEN [class |-> IF f = 0 THEN "inf" ELSE "nan", neg |-> s = 1,
                         sig |-> 0, exp |-> 0]
        ELSE IF e = 0 THEN [class |-> "finite", neg |-> s = 1, sig |-> f, exp |-> -149]
        ELSE [class |-> "finite", neg |-> s = 1, sig |-> 8388608 + f, exp |-> e - 150]

\* The decoded number d is the finite binary32 value b (exponents at most
\* one apart here, so the comparison stays in range).
SameNumber(d, b) ==
    /\ b.class = "finite"
    /\ LET low == IF d.exp < b.exp THEN d.exp ELSE b.exp
       IN  d.sig * (2 ^ (d.exp - low)) = b.sig * (2 ^ (b.exp - low))
    /\ (d.sig # 0 \/ b.sig # 0) => d.neg = b.neg

\* C18: for every pair of words, what the decoder returns is the IEEE 754
\* binary32 value of the pattern with the second word as high half and the
\* first as low half; the pair (lo 0x0FDB, hi 0x4049) decodes to 3.14159
\* within 0.0001 (13176362 <= sig <= 13177200 in units of 2^-22), and the
\* all-zero pattern decodes to 0.
C18_DecodeIsBinary32 ==
    \A p \in Procs :
        pc[p] = "decoded" =>
            /\ SameNumber(decimal_number, Binary32(register_value[2], register_value[1]))
            /\ register_value = <<4059, 16457>> =>
                   /\ ~decimal_number.neg /\ decimal_number.exp = -22
                   /\ decimal_number.sig >= 13176362 /\ decimal_number.sig <= 13177200
            /\ register_value = <<0, 0>> => decimal_number.sig = 0

-----------------------------------------------------------------------------
\* C11: startup initialization never destroys the backlog: when the file
\* exists at startup it holds the same lines in the same order afterwards,
\* and when it is absent it is created with only the header.  Checked with
\* restarts after normal exits, error exits and kills at any step.
C11_StartupKeepsBacklog ==
    [][\A p \in Procs :
          (pc[p] = "main" /\ pc'[p] = "instrument") =>
              /\ csvExists'
              /\ csvExists => csv' = csv
              /\ ~csvExists => csv' = <<HeaderLine>>]_vars

\* A second or later run has started on a file that holds stored readings.
C11_Witness ==
    \E p \in Procs :
        /\ pc[p] = "instrument"
        /\ cycle[p] >= 2
        /\ Entries(csv) # << >>
        /\ csv = startCsv[p]

\* C19: in the replay, the record POSTed for a stored row consists of that
\* row's own values: nothing of the current cycle's reading (its ip_address)
\* is carried into the record of another row, and every field name the loop
\* reads from a row is a name of the file's header, so no lookup fails.
C19_ReplaySendsStoredRow ==
    \A p \in Procs :
        /\ raised[p] # "KeyError"
        /\ \A k \in 1..Len(posts[p]) :
               posts[p][k].payload.ip_address = posts[p][k].payload.row

\* C20: whenever the backlog file exists and no clear_csv is between its two
\* opens, also after a kill at any step followed by a restart, the first line
\* of the file is the header, so the replay reader never takes a reading for
\* the header.
C20_HeaderAlwaysFirst ==
    \A p \in Procs :
        (csvExists /\ pc[p] # "clear_header") =>
            (Len(csv) >= 1 /\ csv[1].kind \in {"header", "legacy_header"})

=============================================================================
